---- MODULE Spec2Model ----
(***************************************************************************)
(* The harmony gate of SR-AIbridge: six copies of one control loop (AI     *)
(* deployment, ground segment, oil and gas, crypto, finance, nuclear).     *)
(* Each loop acquires five scores, computes mu = exp(sum w_i * ln(clamp    *)
(* s_i)) from its context, evaluates five hard gates into ch, decides GO   *)
(* or HALT, reports, and sleeps.                                           *)
(*                                                                         *)
(* Numbers.  f64 values are modelled in fixed point:                       *)
(*   - a weight is an integer number of hundredths (WSCALE);               *)
(*   - a logarithm, and mu, are integers in units of 1e-5 (LSCALE);        *)
(*   - a score is an integer code that keeps the order of the reals it     *)
(*     stands for: the code 2k is the score k/100, and the code 1 is the   *)
(*     one value of the program that lies below that grid, MIN_SCORE =     *)
(*     1e-12, which sits between 0.00 (code 0) and 0.01 (code 2);          *)
(*   - exp keeps the sign of its f64 result: it is 0 exactly where the     *)
(*     f64 exp underflows to 0.0 (argument below EXP_MIN_ARG, -745.13),    *)
(*     and a positive result smaller than one unit is one unit.            *)
(***************************************************************************)
EXTENDS Integers, Sequences, FiniteSets

VARIABLES
    inst,       \* which of the six programs this run is
    ctx,        \* the context built before the loop: [scores, weights]
    scores,     \* the local `scores` of the current iteration
    awaiting,   \* TRUE while main is suspended in a query's or the sleep's .await
    mu,         \* the local `mu` (NoValue before it is bound)
    ch,         \* the local `ch`
    gates,      \* results of the gates check_ch invoked in this iteration, in order
    decision,   \* the decision of this iteration ("none" before it is computed)
    events,     \* collaborator invocations and reported lines of this iteration
    faultLog,   \* the (mu, ch) records given to log_harmony_fault in this iteration
    hookFailed, \* trigger_autoheal failed in this iteration
    pc,         \* the position of main
    ticks       \* completed iterations, counted up to MaxTicks

vars == <<inst, ctx, scores, awaiting, mu, ch, gates, decision, events,
          faultLog, hookFailed, pc, ticks>>

(***************************************************************************)
(* Bounds of the model.                                                    *)
(***************************************************************************)
MaxTicks == 2
\* the longest weight or score sequence of a context given to calculate_mu
MaxLen == 2

(***************************************************************************)
(* Fixed-point representation and program constants.                       *)
(***************************************************************************)
WSCALE == 100
LSCALE == 100000
ONE == 200
MIN_SCORE == 1
HARMONY_THRESHOLD == 99950
LN_MIN_SCORE == -2763102
LN2 == 69315
EXP_MIN_ARG == -74513321
NoValue == -1

Insts == {"ai", "ground", "oilgas", "crypto", "finance", "nuclear"}
\* the instantiations that decide through an evaluate_*_harmony function
EvaluatorInsts == {"ai", "crypto", "finance"}
\* the instantiations that decide through an inline match in main
InlineInsts == {"ground", "oilgas", "nuclear"}

NumSignals == 5
NumGates == 5

\* mutant of MainContext: the weights are listed in the reverse order
MainContext_reversed ==
    [scores |-> <<196, 194, 200, 192, 198>>, weights |-> <<10, 15, 20, 25, 30>>]

\* scores: vec![0.98, 0.97, 1.0, 0.96, 0.99], weights: vec![0.30, 0.25, 0.20, 0.15, 0.10]
MainContext ==
    [scores |-> <<196, 194, 200, 192, 198>>, weights |-> <<30, 25, 20, 15, 10>>]

(***************************************************************************)
(* f64::clamp, f64::ln, f64::exp and calculate_mu.                         *)
(***************************************************************************)
\* mutant of clamp: a score below the floor is raised to 0.01
clamp_floor_grid(s, lo, hi) == IF s < lo THEN lo + 1 ELSE IF s > hi THEN hi ELSE s

\* mutant of clamp: the two bounds are returned by the wrong branches
clamp_swapped(s, lo, hi) == IF s < lo THEN hi ELSE IF s > hi THEN lo ELSE s

clamp(s, lo, hi) == IF s < lo THEN lo ELSE IF s > hi THEN hi ELSE s

\* a / b rounded to the nearest integer (b > 0), the rounding of an f64 operation
RDiv(a, b) == (a + (b \div 2)) \div b

\* the element of a one-element set; { F(v) : v \in {e} } computes e once
Only(S) == CHOOSE v \in S : TRUE

RECURSIVE LnReduce(_, _, _)
\* doubles num until num/den lies in (1/2, 1]; returns <<num, count of doublings>>
LnReduce(num, den, n) ==
    IF 2 * num <= den THEN LnReduce(2 * num, den, n + 1) ELSE <<num, n>>

\* ln(num/den) for 0 < num <= den, in units of 1/LSCALE:
\* ln x = 2 atanh((x-1)/(x+1)) after reducing x into (1/2, 1]
LnSeries(m, den) ==
    LET z   == RDiv((m - den) * LSCALE, m + den)
        z2  == RDiv(z * z, LSCALE)
        t3  == RDiv(z * z2, LSCALE)
        t5  == RDiv(t3 * z2, LSCALE)
        t7  == RDiv(t5 * z2, LSCALE)
        t9  == RDiv(t7 * z2, LSCALE)
    IN  2 * z + RDiv(2 * t3, 3) + RDiv(2 * t5, 5) + RDiv(2 * t7, 7) + RDiv(2 * t9, 9)

LnFrac(num, den) ==
    Only({ LnSeries(red[1], den) - red[2] * LN2 : red \in {LnReduce(num, den, 0)} })

\* ln of a clamped score (a code in MIN_SCORE..ONE)
ln(x) == IF x = MIN_SCORE THEN LN_MIN_SCORE ELSE LnFrac(x, ONE)

RECURSIVE Pow2(_)
Pow2(n) == IF n = 0 THEN 1 ELSE 2 * Pow2(n - 1)

\* exp(x) for x in units of 1/LSCALE: x = n ln 2 + r with |r| <= ln(2)/2,
\* exp x = 2^n * (1 + r + r^2/2! + ... + r^8/8!); below EXP_MIN_ARG the f64
\* result is 0.0, above it the result is positive
exp(x) ==
    LET n  == RDiv(x, LN2)
        r  == x - n * LN2
        t2 == RDiv(r * r, 2 * LSCALE)
        t3 == RDiv(t2 * r, 3 * LSCALE)
        t4 == RDiv(t3 * r, 4 * LSCALE)
        t5 == RDiv(t4 * r, 5 * LSCALE)
        t6 == RDiv(t5 * r, 6 * LSCALE)
        t7 == RDiv(t6 * r, 7 * LSCALE)
        t8 == RDiv(t7 * r, 8 * LSCALE)
        p  == LSCALE + r + t2 + t3 + t4 + t5 + t6 + t7 + t8
        v  == IF n >= 0 THEN p * Pow2(n)
              ELSE IF n < -30 THEN 0
              ELSE RDiv(p, Pow2(-n))
    IN  IF x < EXP_MIN_ARG THEN 0 ELSE IF v = 0 THEN 1 ELSE v

\* w * l for a weight w (hundredths) and a logarithm l
MulWeight(w, l) == (w \div WSCALE) * l + RDiv((w % WSCALE) * l, WSCALE)

Min(a, b) == IF a < b THEN a ELSE b

RECURSIVE LogSum(_, _, _)
\* the loop over weights.iter().zip(scores.iter()): stops at the shorter sequence
LogSum(weights, scrs, i) ==
    IF i > Min(Len(weights), Len(scrs)) THEN 0
    ELSE MulWeight(weights[i], ln(clamp(scrs[i], MIN_SCORE, ONE)))
         + LogSum(weights, scrs, i + 1)

RECURSIVE ArithSum(_, _, _)
ArithSum(weights, scrs, i) ==
    IF i > Min(Len(weights), Len(scrs)) THEN 0
    ELSE weights[i] * clamp(scrs[i], MIN_SCORE, ONE) * 5 + ArithSum(weights, scrs, i + 1)

\* mutant of calculate_mu: the weighted arithmetic mean sum(w * s)
calculate_mu_arith(self) == ArithSum(self.weights, self.scores, 1)

\* mutant of calculate_mu: an empty signal set is rejected, no value is returned
calculate_mu_reject_empty(self) ==
    IF Len(self.weights) = 0 \/ Len(self.scores) = 0 THEN NoValue
    ELSE Only({ exp(log_sum) : log_sum \in {LogSum(self.weights, self.scores, 1)} })

\* let mut log_sum = 0.0; for (w, s) in .. { log_sum += w * s_clipped.ln() }
\* log_sum.exp()
calculate_mu(self) ==
    Only({ exp(log_sum) : log_sum \in {LogSum(self.weights, self.scores, 1)} })

(***************************************************************************)
(* Inputs drawn from the external collaborators.                           *)
(***************************************************************************)
\* what a score query may return: 0.0, 1.0
ScoreInputs == {0, ONE}
\* the outcomes of a call of trigger_autoheal: it returns normally, it
\* returns an error value (which the call statement discards), or it panics
HookOutcomes == {"ok", "err", "panic"}
\* the values of mu a caller may pass to the decision: 0, the mu of
\* MainContext, one unit below the threshold, the threshold, one unit above, 1.0
MuInputs == {0, 97942, HARMONY_THRESHOLD - 1, HARMONY_THRESHOLD,
             HARMONY_THRESHOLD + 1, LSCALE}

(***************************************************************************)
(* Helpers over the events of an iteration.                                *)
(***************************************************************************)
Count(e) == Cardinality({i \in 1..Len(events) : events[i] = e})
Occurs(e) == \E i \in 1..Len(events) : events[i] = e
\* every occurrence of b is preceded by an occurrence of a
Before(a, b) ==
    \A j \in 1..Len(events) : events[j] = b => \E i \in 1..(j - 1) : events[i] = a

(***************************************************************************)
(* The state after construction: the context is built, the loop is         *)
(* about to run its first iteration.                                       *)
(***************************************************************************)
Init ==
    /\ inst \in Insts
    /\ ctx = MainContext
    /\ scores = <<>>
    /\ awaiting = FALSE
    /\ mu = NoValue
    /\ ch = FALSE
    /\ gates = <<>>
    /\ decision = "none"
    /\ events = <<>>
    /\ faultLog = <<>>
    /\ hookFailed = FALSE
    /\ pc = "acquire"
    /\ ticks = 0

(***************************************************************************)
(* main: let scores = vec![query_1().await, ..., query_5().await]          *)
(***************************************************************************)
\* main calls the next query and suspends in its .await
query_issue ==
    /\ pc = "acquire"
    /\ ~awaiting
    /\ Len(scores) < NumSignals
    /\ awaiting' = TRUE
    /\ UNCHANGED <<inst, ctx, scores, mu, ch, gates, decision, events,
                   faultLog, hookFailed, pc, ticks>>

\* mutant of query_return: main goes on to the aggregation while the last
\* query has not been issued
query_return_early ==
    /\ pc = "acquire"
    /\ awaiting
    /\ \E v \in ScoreInputs : scores' = Append(scores, v)
    /\ awaiting' = FALSE
    /\ pc' = IF Len(scores) + 1 >= NumSignals - 1 THEN "calculate_mu" ELSE "acquire"
    /\ UNCHANGED <<inst, ctx, mu, ch, gates, decision, events, faultLog,
                   hookFailed, ticks>>

\* the awaited query completes with a score; after the fifth the vec is bound
query_return ==
    /\ pc = "acquire"
    /\ awaiting
    /\ \E v \in ScoreInputs : scores' = Append(scores, v)
    /\ awaiting' = FALSE
    /\ pc' = IF Len(scores) + 1 = NumSignals THEN "calculate_mu" ELSE "acquire"
    /\ UNCHANGED <<inst, ctx, mu, ch, gates, decision, events, faultLog,
                   hookFailed, ticks>>

(***************************************************************************)
(* main: let mu = ctx.calculate_mu();                                      *)
(***************************************************************************)
let_mu ==
    /\ pc = "calculate_mu"
    /\ mu' = calculate_mu(ctx)
    /\ pc' = "check_ch"
    /\ UNCHANGED <<inst, ctx, scores, awaiting, ch, gates, decision, events,
                   faultLog, hookFailed, ticks>>

\* mutant of check_ch_gate: the result of the last gate is dropped
check_ch_gate_drop_last ==
    /\ pc = "check_ch"
    /\ \E r \in BOOLEAN :
        /\ gates' = Append(gates, r)
        /\ IF Len(gates) + 1 = NumGates
           THEN ch' = TRUE /\ pc' = "evaluate"
           ELSE IF ~r
                THEN ch' = FALSE /\ pc' = "evaluate"
                ELSE UNCHANGED <<ch, pc>>
    /\ UNCHANGED <<inst, ctx, scores, awaiting, mu, decision, events,
                   faultLog, hookFailed, ticks>>

\* mutant of check_ch_gate: & in the place of &&, every gate is evaluated
check_ch_gate_all ==
    /\ pc = "check_ch"
    /\ \E r \in BOOLEAN :
        /\ gates' = Append(gates, r)
        /\ IF Len(gates) + 1 = NumGates
           THEN /\ ch' = (r /\ \A i \in 1..Len(gates) : gates[i])
                /\ pc' = "evaluate"
           ELSE UNCHANGED <<ch, pc>>
    /\ UNCHANGED <<inst, ctx, scores, awaiting, mu, decision, events,
                   faultLog, hookFailed, ticks>>

(***************************************************************************)
(* check_ch: g1() && g2() && g3() && g4() && g5(), one gate per step.      *)
(* && evaluates its right operand only when the left one is true.          *)
(***************************************************************************)
check_ch_gate ==
    /\ pc = "check_ch"
    /\ \E r \in BOOLEAN :
        /\ gates' = Append(gates, r)
        /\ IF ~r
           THEN ch' = FALSE /\ pc' = "evaluate"
           ELSE IF Len(gates) + 1 = NumGates
                THEN ch' = TRUE /\ pc' = "evaluate"
                ELSE UNCHANGED <<ch, pc>>
    /\ UNCHANGED <<inst, ctx, scores, awaiting, mu, decision, events,
                   faultLog, hookFailed, ticks>>

(***************************************************************************)
(* The decision.                                                           *)
(***************************************************************************)
\* mutant of harmony: the comparison is strict
harmony_strict(m, c) == m > HARMONY_THRESHOLD /\ c

\* mu >= HARMONY_THRESHOLD && ch
harmony(m, c) == m >= HARMONY_THRESHOLD /\ c

\* evaluate_ai_harmony, evaluate_crypto_harmony, evaluate_finance_harmony:
\* the if; the GO branch returns at once
evaluate_harmony ==
    /\ pc = "evaluate"
    /\ inst \in EvaluatorInsts
    /\ IF harmony(mu, ch)
       THEN decision' = "GO" /\ pc' = "report"
       ELSE decision' = decision /\ pc' = "trigger_autoheal"
    /\ UNCHANGED <<inst, ctx, scores, awaiting, mu, ch, gates, events,
                   faultLog, hookFailed, ticks>>

\* the else branch: trigger_autoheal();
\* a panic unwinds through the evaluator and main: nothing catches it
trigger_autoheal ==
    /\ pc = "trigger_autoheal"
    /\ events' = Append(events, "trigger_autoheal")
    /\ \E outcome \in HookOutcomes :
        /\ hookFailed' = (outcome # "ok")
        /\ pc' = IF outcome = "panic" THEN "panicked" ELSE "log_harmony_fault"
    /\ UNCHANGED <<inst, ctx, scores, awaiting, mu, ch, gates, decision,
                   faultLog, ticks>>

\* mutant of log_harmony_fault: the threshold is logged in the place of mu
log_harmony_fault_threshold ==
    /\ pc = "log_harmony_fault"
    /\ events' = Append(events, "log_harmony_fault")
    /\ faultLog' = Append(faultLog, [mu |-> HARMONY_THRESHOLD, ch |-> ch])
    /\ pc' = "return_halt"
    /\ UNCHANGED <<inst, ctx, scores, awaiting, mu, ch, gates, decision,
                   hookFailed, ticks>>

\* the else branch: log_harmony_fault(mu, ch);
log_harmony_fault ==
    /\ pc = "log_harmony_fault"
    /\ events' = Append(events, "log_harmony_fault")
    /\ faultLog' = Append(faultLog, [mu |-> mu, ch |-> ch])
    /\ pc' = "return_halt"
    /\ UNCHANGED <<inst, ctx, scores, awaiting, mu, ch, gates, decision,
                   hookFailed, ticks>>

\* the else branch: the value DEPLOY_HALT / TX_HALT is returned to main
return_halt ==
    /\ pc = "return_halt"
    /\ decision' = "HALT"
    /\ pc' = "report"
    /\ UNCHANGED <<inst, ctx, scores, awaiting, mu, ch, gates, events,
                   faultLog, hookFailed, ticks>>

\* ground segment, oil and gas, nuclear: match (mu >= HARMONY_THRESHOLD && ch)
main_match ==
    /\ pc = "evaluate"
    /\ inst \in InlineInsts
    /\ decision' = IF harmony(mu, ch) THEN "GO" ELSE "HALT"
    /\ pc' = "report"
    /\ UNCHANGED <<inst, ctx, scores, awaiting, mu, ch, gates, events,
                   faultLog, hookFailed, ticks>>

(***************************************************************************)
(* main: the match arms, and the sleep.                                    *)
(***************************************************************************)
\* mutant of println: oil and gas holds the choke after either line
println_hold_always ==
    /\ pc = "report"
    /\ events' = Append(events, decision)
    /\ pc' = IF inst = "oilgas" THEN "hold_choke" ELSE "sleep"
    /\ UNCHANGED <<inst, ctx, scores, awaiting, mu, ch, gates, decision,
                   faultLog, hookFailed, ticks>>

\* println!: the GO line or the HALT line; oil and gas goes on to hold_choke
println ==
    /\ pc = "report"
    /\ events' = Append(events, decision)
    /\ pc' = IF inst = "oilgas" /\ decision = "HALT" THEN "hold_choke" ELSE "sleep"
    /\ UNCHANGED <<inst, ctx, scores, awaiting, mu, ch, gates, decision,
                   faultLog, hookFailed, ticks>>

\* oil and gas, HALT arm: hold_choke().await
hold_choke ==
    /\ pc = "hold_choke"
    /\ events' = Append(events, "hold_choke")
    /\ pc' = "sleep"
    /\ UNCHANGED <<inst, ctx, scores, awaiting, mu, ch, gates, decision,
                   faultLog, hookFailed, ticks>>

\* tokio::time::sleep(..) is called and main suspends in its .await
sleep_issue ==
    /\ pc = "sleep"
    /\ ~awaiting
    /\ awaiting' = TRUE
    /\ UNCHANGED <<inst, ctx, scores, mu, ch, gates, decision, events,
                   faultLog, hookFailed, pc, ticks>>

\* mutant of sleep_return: the loop is left after the sleep
sleep_return_break ==
    /\ pc = "sleep"
    /\ awaiting
    /\ awaiting' = FALSE
    /\ pc' = "exit"
    /\ UNCHANGED <<inst, ctx, scores, mu, ch, gates, decision, events,
                   faultLog, hookFailed, ticks>>

\* the sleep completes: the iteration ends, its locals are dropped, and the
\* loop starts the next iteration
sleep_return ==
    /\ pc = "sleep"
    /\ awaiting
    /\ awaiting' = FALSE
    /\ scores' = <<>>
    /\ mu' = NoValue
    /\ ch' = FALSE
    /\ gates' = <<>>
    /\ decision' = "none"
    /\ events' = <<>>
    /\ faultLog' = <<>>
    /\ hookFailed' = FALSE
    /\ ticks' = Min(ticks + 1, MaxTicks)
    /\ pc' = "acquire"
    /\ UNCHANGED <<inst, ctx>>

(***************************************************************************)
(* The program: one of the six loops.                                      *)
(***************************************************************************)
Next ==
    \/ query_issue
    \/ query_return
    \/ let_mu
    \/ check_ch_gate
    \/ evaluate_harmony
    \/ trigger_autoheal
    \/ log_harmony_fault
    \/ return_halt
    \/ main_match
    \/ println
    \/ hold_choke
    \/ sleep_issue
    \/ sleep_return

Spec == Init /\ [][Next]_vars

\* the loop under the scheduling of the runtime: a step that can be taken
\* (an awaited call has returned, main is runnable) is eventually taken
LiveSpec == Init /\ [][Next]_vars /\ WF_vars(Next)

(***************************************************************************)
(* One iteration from check_ch on, for any mu: check_ch and the            *)
(* evaluate_*_harmony functions are public and take any (mu, ch); the      *)
(* inline decisions are exercised on the same inputs.                      *)
(***************************************************************************)
TickInit ==
    /\ inst \in Insts
    /\ ctx = MainContext
    /\ scores = <<ONE, ONE, ONE, ONE, ONE>>
    /\ awaiting = FALSE
    /\ mu \in MuInputs
    /\ ch = FALSE
    /\ gates = <<>>
    /\ decision = "none"
    /\ events = <<>>
    /\ faultLog = <<>>
    /\ hookFailed = FALSE
    /\ pc = "check_ch"
    /\ ticks = 0

TickNext ==
    \/ check_ch_gate
    \/ evaluate_harmony
    \/ trigger_autoheal
    \/ log_harmony_fault
    \/ return_halt
    \/ main_match
    \/ println
    \/ hold_choke
    \/ sleep_issue

TickSpec == TickInit /\ [][TickNext]_vars

(***************************************************************************)
(* calculate_mu on any context, followed by check_ch and the decision:     *)
(* the context structs and calculate_mu are public, a caller may build     *)
(* any weights and scores, of any lengths.                                 *)
(***************************************************************************)
\* the scores a caller may store: 0.0, 1e-12, 0.5, 1.0, 1.5
ScoreValues == {0, MIN_SCORE, 100, ONE, 300}
\* the weights a caller may store: 0.0, 0.30, 30.0
WeightValues == {0, 30, 3000}
SeqsUpTo(S, n) == UNION {[1..k -> S] : k \in 0..n}
Contexts ==
    [scores : SeqsUpTo(ScoreValues, MaxLen), weights : SeqsUpTo(WeightValues, MaxLen)]

AggInit ==
    /\ inst \in Insts
    /\ ctx \in Contexts
    /\ scores = <<>>
    /\ awaiting = FALSE
    /\ mu = NoValue
    /\ ch = FALSE
    /\ gates = <<>>
    /\ decision = "none"
    /\ events = <<>>
    /\ faultLog = <<>>
    /\ hookFailed = FALSE
    /\ pc = "calculate_mu"
    /\ ticks = 0

AggNext ==
    \/ let_mu
    \/ check_ch_gate
    \/ evaluate_harmony
    \/ trigger_autoheal
    \/ log_harmony_fault
    \/ return_halt
    \/ main_match

AggSpec == AggInit /\ [][AggNext]_vars

(***************************************************************************)
(* Properties.                                                             *)
(***************************************************************************)
AllGatesTrue == Len(gates) = NumGates /\ \A i \in 1..NumGates : gates[i]
SomeGateFalse == \E i \in 1..Len(gates) : ~gates[i]
\* positions of main after check_ch has returned
AfterCheckCh == {"evaluate", "trigger_autoheal", "log_harmony_fault",
                 "return_halt", "report", "hold_choke", "sleep", "panicked"}

\* C1: in each of the six instantiations, for every mu and ch, the decision
\* is GO if and only if mu >= 0.9995 and ch is true, and HALT otherwise; mu
\* equal to the threshold with ch true gives GO.
C1_DecisionRule ==
    decision # "none" =>
        /\ decision = "GO" <=> (mu >= HARMONY_THRESHOLD /\ ch = TRUE)
        /\ decision = "HALT" <=> ~(mu >= HARMONY_THRESHOLD /\ ch = TRUE)

\* C1 witness: an inline instantiation decides GO at mu equal to the threshold
C1_Witness ==
    inst = "nuclear" /\ mu = HARMONY_THRESHOLD /\ ch /\ decision = "GO"

\* C2: check_ch returns true if and only if each of its five gates returned
\* true; when a gate returned false, ch is false and the iteration decides
\* and reports HALT whatever mu is, mu = 1.0 included.
C2_HardGateVeto ==
    /\ pc \in AfterCheckCh => (ch <=> AllGatesTrue)
    /\ SomeGateFalse =>
        /\ ~ch
        /\ decision # "GO"
        /\ ~Occurs("GO")
        /\ pc = "sleep" => Occurs("HALT")

\* C2 witness: mu = 1.0, a gate returned false, and HALT is reported
C2_Witness ==
    mu = LSCALE /\ SomeGateFalse /\ Occurs("HALT") /\ pc = "sleep"

\* C3: the mu compared against the threshold in an iteration is the
\* aggregate of the scores acquired in that same iteration.
C3_FreshMu ==
    mu # NoValue =>
        mu = calculate_mu([scores |-> scores, weights |-> ctx.weights])

\* C4: when an evaluator function returns HALT, trigger_autoheal has been
\* invoked exactly once and log_harmony_fault exactly once, with the (mu, ch)
\* the evaluator received, both before the return.
C4_HaltSideEffects ==
    (inst \in EvaluatorInsts /\ decision = "HALT") =>
        /\ Count("trigger_autoheal") = 1
        /\ Count("log_harmony_fault") = 1
        /\ faultLog = <<[mu |-> mu, ch |-> ch]>>

\* C4 witness: an evaluator has returned HALT for a mu above the threshold
\* with ch false
C4_Witness ==
    /\ inst = "finance" /\ decision = "HALT" /\ pc = "report"
    /\ mu = LSCALE /\ ~ch

\* C5: in every instantiation, no HALT is reported without a fault record
\* and a recovery-hook invocation made earlier in the same iteration.
C5_NoHaltWithoutFaultRecord ==
    Occurs("HALT") =>
        /\ Before("trigger_autoheal", "HALT")
        /\ Before("log_harmony_fault", "HALT")
        /\ Len(faultLog) >= 1

\* C6: when the recovery hook fails during a HALT evaluation, the evaluator
\* still returns HALT, the iteration still reports HALT, and the loop goes
\* on: the failure never propagates out of the loop.
C6_HookFailureSwallowed ==
    hookFailed =>
        /\ pc # "panicked"
        /\ decision # "GO"
        /\ pc = "sleep" => Occurs("HALT")

\* C7: every iteration reports exactly one outcome, GO or HALT: never none,
\* never two, and no iteration ends in a crash.
C7_OneOutcomePerTick ==
    /\ pc # "panicked"
    /\ Count("GO") + Count("HALT") <= 1
    /\ pc = "sleep" => Count("GO") + Count("HALT") = 1

\* the step of an iteration a position of main belongs to: 1 acquire the
\* signals, 2 compute mu, 3 compute ch, 4 compute the decision, 5 report,
\* 6 sleep
StepOf(p) ==
    CASE p = "acquire" -> 1
      [] p = "calculate_mu" -> 2
      [] p = "check_ch" -> 3
      [] p \in {"evaluate", "trigger_autoheal", "log_harmony_fault",
                "return_halt", "panicked"} -> 4
      [] p \in {"report", "hold_choke"} -> 5
      [] p = "sleep" -> 6

C8_StepOrder ==
    \* a step is followed by itself or by the next one, and the sixth by the
    \* first of the next iteration, once the sleep has completed
    /\ \/ StepOf(pc') = StepOf(pc)
       \/ StepOf(pc') = StepOf(pc) + 1
       \/ StepOf(pc) = 6 /\ StepOf(pc') = 1 /\ awaiting /\ ~awaiting'
    \* aggregation begins when all five acquisitions have completed
    /\ (mu' # mu /\ mu' # NoValue) =>
           Len(scores) = NumSignals /\ ~awaiting /\ gates = <<>>
    \* the gates run after mu is computed, the decision after ch
    /\ (gates' # gates /\ gates' # <<>>) => mu # NoValue /\ decision = "none"
    /\ (decision' # decision /\ decision' # "none") =>
           pc \in AfterCheckCh /\ events \in {<<>>, <<"trigger_autoheal", "log_harmony_fault">>}
    \* the report follows the decision, the sleep follows the report
    /\ (Len(events') > Len(events) /\ events'[Len(events')] \in {"GO", "HALT"}) =>
           decision # "none"
    /\ (awaiting' /\ ~awaiting /\ pc = "sleep") => Occurs(decision)
    \* an acquisition starts with nothing of an earlier iteration in flight
    /\ (awaiting' /\ ~awaiting /\ pc = "acquire") =>
           /\ mu = NoValue /\ gates = <<>> /\ decision = "none" /\ events = <<>>
           /\ Len(scores) < NumSignals

\* C8: within an iteration the steps run in the order acquire, compute mu,
\* compute ch, decide, report, sleep; every acquisition has completed before
\* aggregation begins; no iteration starts acquiring before the sleep of the
\* previous one has completed, so at most one iteration is in flight.
C8_TickOrder == [][C8_StepOrder]_vars

\* C8 witness: a later iteration has acquired all its scores and computed mu
C8_Witness ==
    ticks >= 1 /\ pc = "check_ch" /\ Len(scores) = NumSignals /\ mu # NoValue

\* an iteration begins: main is at the top of the loop body
TickStart == pc = "acquire" /\ scores = <<>> /\ ~awaiting

\* C9: the loop has no terminating state of its own: provided every
\* collaborator call and the sleep return, an iteration is always followed
\* by another one (a panicking call does not return).
C9_TickRecurs == []<>(TickStart \/ pc = "panicked")

\* C9 witness: an iteration begins after one that reported HALT and slept
C9_Witness == ticks >= 1 /\ TickStart /\ inst = "ground"

\* C10: in oil and gas, hold_choke is invoked exactly once in an iteration
\* that decided HALT, after the HALT line is reported and before the sleep
\* begins, and never in an iteration that decided GO.
C10_HoldChoke ==
    inst = "oilgas" =>
        /\ (decision = "HALT" /\ pc = "sleep") => events = <<"HALT", "hold_choke">>
        /\ decision = "GO" => ~Occurs("hold_choke") /\ pc # "hold_choke"
        /\ Count("hold_choke") <= 1
        /\ Before("HALT", "hold_choke")

\* C10 witness: oil and gas is in its sleep after HALT and hold_choke
C10_Witness ==
    /\ inst = "oilgas" /\ pc = "sleep" /\ awaiting
    /\ decision = "HALT" /\ events = <<"HALT", "hold_choke">>

\* oil and gas has also reached its sleep after GO
C10_WitnessGo ==
    inst = "oilgas" /\ pc = "sleep" /\ decision = "GO" /\ events = <<"GO">>

(***************************************************************************)
(* Properties of calculate_mu.                                             *)
(***************************************************************************)
\* calculate_mu has just returned for the context
MuReturned == pc = "check_ch" /\ gates = <<>> /\ mu # NoValue
SameLengths == Len(ctx.weights) = Len(ctx.scores)

\* C11: when the weight and score sequences have different lengths, the
\* evaluation fails with a ConfigurationError: calculate_mu returns no
\* confidence scalar and no GO or HALT is derived from the input.
C11_LengthMismatchRejected ==
    ~SameLengths => mu = NoValue /\ decision = "none"

\* C12: for every non-empty signal set with scores in [0, 1] and weights
\* >= 0, normalized or not, calculate_mu returns a value > 0 and <= 1.
C12_MuInUnitInterval ==
    ( /\ mu # NoValue
      /\ SameLengths /\ Len(ctx.scores) >= 1
      /\ \A i \in 1..Len(ctx.scores) :
            ctx.scores[i] >= 0 /\ ctx.scores[i] <= ONE /\ ctx.weights[i] >= 0 )
    => (mu > 0 /\ mu <= LSCALE)

\* the context with every score <= 0 replaced by MIN_SCORE
Floored(c) ==
    [c EXCEPT !.scores = [i \in 1..Len(c.scores) |->
                            IF c.scores[i] <= 0 THEN MIN_SCORE ELSE c.scores[i]]]

\* C13: replacing any score <= 0 by exactly MIN_SCORE leaves the result of
\* calculate_mu unchanged, and the result is a number.
C13_ClampFloor ==
    MuReturned => mu = calculate_mu(Floored(ctx)) /\ mu \in Nat

\* C13 witness: calculate_mu returned for a context with a zero score that
\* carries weight
C13_Witness ==
    /\ MuReturned /\ SameLengths
    /\ \E i \in 1..Len(ctx.scores) : ctx.scores[i] <= 0 /\ ctx.weights[i] = 30
    /\ mu > 0 /\ mu < LSCALE

\* C14: calculate_mu is non-decreasing in each score: with the same
\* non-negative weights, raising one score never lowers mu.
C14_Monotone ==
    MuReturned =>
        \A i \in 1..Len(ctx.scores) : \A s \in ScoreValues :
            s >= ctx.scores[i] =>
                calculate_mu([ctx EXCEPT !.scores[i] = s]) >= mu

\* C14 witness: calculate_mu returned for a context in which raising a
\* score from 0.5 to 1.0 raises mu
C14_Witness ==
    /\ MuReturned /\ SameLengths /\ Len(ctx.scores) = 2
    /\ ctx.scores[1] = 100 /\ ctx.weights[1] = 30
    /\ calculate_mu([ctx EXCEPT !.scores[1] = ONE]) > mu

AllScoresOne ==
    Len(ctx.scores) >= 1 /\ \A i \in 1..Len(ctx.scores) : ctx.scores[i] = ONE

\* C15: when every score is exactly 1.0, calculate_mu returns exactly 1.0
\* for every non-negative weight vector, whatever its sum, and with ch true
\* the decision is GO.
C15_AllOnes ==
    (AllScoresOne /\ mu # NoValue) =>
        /\ mu = LSCALE
        /\ (ch /\ pc \in AfterCheckCh) => pc \in {"evaluate", "report"}
        /\ (ch /\ pc = "report") => decision = "GO"

\* C15 witness: scores 1.0, 1.0 with weights 30.0, 0.30 and ch true: GO
C15_Witness ==
    /\ inst = "finance" /\ ctx.scores = <<ONE, ONE>> /\ ctx.weights = <<3000, 30>>
    /\ mu = LSCALE /\ ch /\ pc = "report" /\ decision = "GO"

(***************************************************************************)
(* Properties of the loops on the context built in main.                   *)
(***************************************************************************)
\* C16 as stated: for scores [0.98, 0.97, 1.0, 0.96, 0.99] with weights
\* [0.30, 0.25, 0.20, 0.15, 0.10], calculate_mu returns mu = 0.9784 to four
\* decimals, below the threshold, and the decision is HALT even with ch true.
C16_MuIs09784 ==
    (mu # NoValue /\ ctx = MainContext) =>
        /\ mu >= 97835 /\ mu < 97845
        /\ mu < HARMONY_THRESHOLD
        /\ decision # "GO"
        /\ pc \in {"report", "hold_choke", "sleep"} => decision = "HALT"

\* C16 amended: for these scores and weights calculate_mu returns mu = 0.9794
\* to four decimals, below the threshold 0.9995, and the decision is HALT
\* even when ch is true.
C16_MuIs09794 ==
    (mu # NoValue /\ ctx = MainContext) =>
        /\ mu >= 97935 /\ mu < 97945
        /\ mu < HARMONY_THRESHOLD
        /\ decision # "GO"
        /\ pc \in {"report", "hold_choke", "sleep"} => decision = "HALT"

\* C16 witness: the crypto loop, every gate true, HALT decided and reported
C16_Witness ==
    /\ inst = "crypto" /\ ctx = MainContext /\ mu >= 97935 /\ mu < 97945
    /\ AllGatesTrue /\ ch /\ decision = "HALT" /\ Occurs("HALT") /\ pc = "sleep"

\* C17: in each of the six loops mu has the same value in every iteration,
\* the mu of the context built before the loop, whatever scores are acquired;
\* that value is below the threshold; every iteration reports HALT and GO is
\* never reported, for every sequence of scores and gate results.
C17_EveryTickHalts ==
    /\ mu # NoValue => mu = calculate_mu(MainContext) /\ mu < HARMONY_THRESHOLD
    /\ decision # "GO" /\ ~Occurs("GO")
    /\ pc # "panicked"
    /\ pc = "sleep" => Occurs("HALT")

\* the part of C17 that does not depend on the recovery hook returning: mu
\* is the same below-threshold value in every iteration and GO is never
\* decided or reported
C17_NeverGo ==
    /\ mu # NoValue => mu = calculate_mu(MainContext) /\ mu < HARMONY_THRESHOLD
    /\ decision # "GO" /\ ~Occurs("GO")
    /\ (pc = "sleep" /\ ~hookFailed) => Occurs("HALT")

\* the signal set of the context is empty: no weights and no scores
EmptySignalSet == ctx.scores = <<>> /\ ctx.weights = <<>>

\* C18: for an empty signal set calculate_mu returns exactly 1.0, without an
\* error, and with ch true the decision is GO.
C18_EmptyIsOne ==
    (EmptySignalSet /\ pc # "calculate_mu") =>
        /\ mu = LSCALE
        /\ (ch /\ pc \in AfterCheckCh) => pc \in {"evaluate", "report"}
        /\ (ch /\ pc = "report") => decision = "GO"
        /\ decision = "GO" => ch

\* C18 witness: the ai evaluator returned GO for the empty signal set and
\* five true gates
C18_Witness ==
    /\ inst = "ai" /\ EmptySignalSet /\ mu = LSCALE
    /\ AllGatesTrue /\ ch /\ pc = "report" /\ decision = "GO"

\* the number of HALT decisions an evaluator function has returned in the
\* iteration
HaltsReturned == IF inst \in EvaluatorInsts /\ decision = "HALT" THEN 1 ELSE 0

\* a GO decision has no side effect
GoHasNoSideEffect ==
    decision = "GO" =>
        /\ ~Occurs("trigger_autoheal")
        /\ ~Occurs("log_harmony_fault")
        /\ ~Occurs("hold_choke")
        /\ faultLog = <<>>
        /\ pc \notin {"trigger_autoheal", "log_harmony_fault", "return_halt",
                      "hold_choke", "panicked"}

\* C19: in an iteration whose decision is GO, none of trigger_autoheal,
\* log_harmony_fault and hold_choke is invoked; once the decision step of an
\* iteration is over, the number of recovery-hook invocations and the number
\* of fault records each equal the number of HALT decisions returned by the
\* evaluator functions.
C19_SideEffectsCountHalts ==
    /\ GoHasNoSideEffect
    /\ pc \in {"report", "hold_choke", "sleep", "panicked"} =>
        /\ Count("trigger_autoheal") = HaltsReturned
        /\ Count("log_harmony_fault") = HaltsReturned
        /\ Len(faultLog) = HaltsReturned

\* the part of C19 that does not depend on the recovery hook returning, and
\* the counts in the iterations whose decision step returned
C19_ReturnedTicks ==
    /\ GoHasNoSideEffect
    /\ pc \in {"report", "hold_choke", "sleep"} =>
        /\ Count("trigger_autoheal") = HaltsReturned
        /\ Count("log_harmony_fault") = HaltsReturned
        /\ Len(faultLog) = HaltsReturned

\* C20: check_ch evaluates its gates one at a time in their declared order
\* and stops at the first gate that returns false: when gate k is the first
\* false gate, gates 1..k have each been invoked once and gates k+1..5 are
\* not invoked in that iteration; with no false gate all five are invoked;
\* and the gates of an iteration are evaluated only after its mu is computed.
\* gates[i] is the result of the one invocation of gate i.
C20_GatesShortCircuit ==
    /\ Len(gates) <= NumGates
    /\ \A i \in 1..(Len(gates) - 1) : gates[i]
    /\ pc = "check_ch" => ~SomeGateFalse /\ Len(gates) < NumGates
    /\ pc \in AfterCheckCh =>
        /\ SomeGateFalse \/ Len(gates) = NumGates
        /\ ch <=> ~SomeGateFalse
    /\ pc \in {"acquire", "calculate_mu"} => gates = <<>>
    /\ gates # <<>> => mu # NoValue

\* C20 witness: the third gate is the first false one, check_ch has returned
\* false and gates four and five were not invoked
C20_Witness ==
    /\ gates = <<TRUE, TRUE, FALSE>> /\ pc = "evaluate" /\ ~ch
    /\ mu # NoValue /\ ticks >= 1

====
